---- MODULE Spec2Model ----
(***************************************************************************)
(* Travel-allowance reconciliation (trip_pdf).                             *)
(*                                                                         *)
(* The model follows the pipeline of src/core:                             *)
(*   pdf_parser.py   cell texts -> normalized trip records                 *)
(*   rules.py        per-trip amount, daily cap, monthly cap               *)
(*   pdf_analyzer.py per-person summary, merge, voucher spreadsheet        *)
(* and the older template filler of src/pdf_analyzer.py.                   *)
(*                                                                         *)
(* Texts (names, cell contents) are sequences of one-character strings so  *)
(* that strip / split / search are computed, not assumed.                  *)
(***************************************************************************)
EXTENDS Integers, Sequences, FiniteSets, TLC

VARIABLES
    pc,                 \* position of the running operation
    minutes, car_used, amt,                     \* calc_row_amount: arguments, result
    df_rows,            \* normalized trip records, in extraction order
    row_base, row_daily_limited, row_final,     \* columns added by the calculator
    cum, grp, pos,      \* running total, current group, position in the group
    person_totals,      \* calculator output: name -> total
    pdf_summary,        \* summarize_pdf_by_person output: name -> row
    summary,            \* merged summary: name -> row
    template, branch,   \* the voucher template; the side of pdf_analyzer.py:178-186
    ws,                 \* the worksheet written by fill_template_with_summary
    n_people, total_row, last_data_row,         \* its locals at return (0: unset)
    raw_row,            \* one row of the extracted table: its text cells
    trip,               \* the record parse_pdf_to_rows makes of it
    doc,                \* the tables extracted from a document
    df_all, df_final,   \* parse_pdf_to_rows: the rows in work, the records returned
    parse_error,        \* the error parse_pdf_to_rows raised ("": none)
    uploaded_pdf, run_button,       \* app.py: the widgets' values in a script run
    template_file,                  \* the file at TEMPLATE_PATH
    summary_df, result_bytes, last_error, last_pdf_fingerprint, \* st.session_state
    shown,              \* what the script run displayed
    results_of          \* history: the upload the stored results were made from

rowVars   == <<minutes, car_used, amt>>
rulesVars == <<df_rows, row_base, row_daily_limited, row_final, cum, grp, pos,
               person_totals>>
fillVars  == <<template, branch, ws, n_people, total_row, last_data_row>>
normVars  == <<raw_row, trip>>
parseVars == <<doc, df_all, df_final, parse_error>>
uiVars    == <<uploaded_pdf, run_button, template_file, summary_df, result_bytes,
               last_error, last_pdf_fingerprint, shown, results_of>>
vars      == <<pc, rowVars, rulesVars, pdf_summary, summary, fillVars, normVars,
               parseVars, uiVars>>

---------------------------------------------------------------------------
(* Bounds of the model *)

MaxMinutes    == 300    \* durations 0..MaxMinutes cover the tiers 0 / 60 / 240
MaxNegMinutes == 2      \* a few negative durations, to exercise _normalize_minutes
MaxFree       == 2      \* calculator input: up to MaxFree arbitrary records
MaxHead       == 1      \* ... or up to MaxHead arbitrary records, then a bulk
MaxBulk       == 14     \* bulk: MaxBulk-1 or MaxBulk full-day trips on distinct days
MaxTrips      == 2      \* analyze: up to MaxTrips arbitrary trip records
MaxPeople     == 25     \* writer: rosters of 1..MaxPeople named persons
MaxNamed      == 1      \* older writer: templates with up to MaxNamed + 1 names
MaxCell       == 3      \* parser: arbitrary duration / amount cells of up to MaxCell characters

---------------------------------------------------------------------------
(* Generic helpers *)

SeqsUpTo(S, n) == UNION {[1..k -> S] : k \in 0..n}

NonEmptySeqsUpTo(S, n) == UNION {[1..k -> S] : k \in 1..n}

RECURSIVE SumSeq(_)
SumSeq(s) == IF s = <<>> THEN 0 ELSE s[1] + SumSeq(Tail(s))

Max(a, b) == IF a >= b THEN a ELSE b

---------------------------------------------------------------------------
(* rules.py : per-trip amount *)

\* rules.py:19-25, on an integer argument: int(float(m)) is m, then max(m, 0)
normalize_minutes(m) == Max(m, 0)

\* rules.py:28-43, on a boolean argument (the parser yields a bool):
\* True is in true_values, False is in false_values
normalize_car_used(c) ==
    IF c \in {TRUE} THEN TRUE
    ELSE IF c \in {FALSE} THEN FALSE
    ELSE c

\* the same with the lower tier boundary off by one (m > 60 for 60 <= m)
calc_row_amount_offbyone(m0, c) ==
    LET m    == normalize_minutes(m0)
        amt0 == IF 60 < m /\ m < 240 THEN 10000
                ELSE IF m >= 240 THEN 20000
                ELSE 0
        amt1 == IF c /\ amt0 > 0 THEN amt0 - 10000 ELSE amt0
    IN  IF amt1 < 0 THEN 0 ELSE amt1

calc_row_amount(m0, c) ==
    LET m    == normalize_minutes(m0)
        amt0 == IF 60 <= m /\ m < 240 THEN 10000
                ELSE IF m >= 240 THEN 20000
                ELSE 0
        amt1 == IF c /\ amt0 > 0 THEN amt0 - 10000 ELSE amt0
    IN  IF amt1 < 0 THEN 0 ELSE amt1

---------------------------------------------------------------------------
(* Texts.  A text is a sequence of one-character strings.  "\n" is the line  *)
(* break; the order of texts is Python's (by code point).                    *)

CharCode(ch) ==
    CASE ch = "\n" -> 10
      [] ch = " "  -> 32
      [] ch = "("  -> 40
      [] ch = ")"  -> 41
      [] ch = "a"  -> 97
      [] ch = "b"  -> 98

RECURSIVE TextLess(_, _)
TextLess(s, t) ==
    IF t = <<>> THEN FALSE
    ELSE IF s = <<>> THEN TRUE
    ELSE IF s[1] = t[1] THEN TextLess(Tail(s), Tail(t))
    ELSE CharCode(s[1]) < CharCode(t[1])

\* the keys of a groupby / sort_index, ascending
RECURSIVE SortTexts(_)
SortTexts(S) ==
    IF S = {} THEN <<>>
    ELSE LET m == CHOOSE x \in S : \A y \in S \ {x} : TextLess(x, y)
         IN  <<m>> \o SortTexts(S \ {m})

---------------------------------------------------------------------------
(* rules.py : compute_allowance_by_person                                  *)
(* A row is [name, start_date, minutes, car_used (, amount_pdf)]; a start  *)
(* date is a day number, 0 standing for the empty string of an unparsed    *)
(* period.  The frame's index is 1..Len(rows).                             *)

DAILY_CAP   == 20000
MONTHLY_CAP == 280000

Indices(rows) == [i \in 1..Len(rows) |-> i]

Zeros(rows) == [i \in 1..Len(rows) |-> 0]

RowNames(rows) == {rows[i].name : i \in 1..Len(rows)}

DayKeyLess(k1, k2) ==
    \/ TextLess(k1[1], k2[1])
    \/ k1[1] = k2[1] /\ k1[2] < k2[2]

RECURSIVE SortDayKeys(_)
SortDayKeys(S) ==
    IF S = {} THEN <<>>
    ELSE LET m == CHOOSE x \in S : \A y \in S \ {x} : DayKeyLess(x, y)
         IN  <<m>> \o SortDayKeys(S \ {m})

\* df.groupby(["name", "start_date"]): the keys in ascending order
DayGroups(rows) ==
    SortDayKeys({<<rows[i].name, rows[i].start_date>> : i \in 1..Len(rows)})

\* g.index of one (name, start_date) group: its rows in frame order
DayGroupIndex(rows, key) ==
    SelectSeq(Indices(rows),
              LAMBDA i : <<rows[i].name, rows[i].start_date>> = key)

\* df.groupby("name"): the keys in ascending order
NameGroups(rows) == SortTexts(RowNames(rows))

\* g.index of one name group: its rows in frame order
NameGroupIndex(rows, name) ==
    SelectSeq(Indices(rows), LAMBDA i : rows[i].name = name)

\* step 1: the per-trip base amount of every row
RowBaseOf(rows) ==
    [i \in 1..Len(rows) |->
        calc_row_amount(normalize_minutes(rows[i].minutes),
                        normalize_car_used(rows[i].car_used))]

\* the daily clamp without its last branch: the whole base is always added
DailyAdd_noclamp(base, c) ==
    IF base <= 0 \/ c >= DAILY_CAP THEN 0
    ELSE base

\* what one row adds to its day's running total c
DailyAdd(base, c) ==
    IF base <= 0 \/ c >= DAILY_CAP THEN 0
    ELSE IF c + base <= DAILY_CAP THEN base
    ELSE DAILY_CAP - c

\* the monthly clamp without its last branch
MonthlyAdd_noclamp(base, c) ==
    IF base <= 0 \/ c >= MONTHLY_CAP THEN 0
    ELSE base

\* the monthly clamp dropping a row that does not fit whole
MonthlyAdd_dropover(base, c) ==
    IF base <= 0 \/ c >= MONTHLY_CAP THEN 0
    ELSE IF c + base <= MONTHLY_CAP THEN base
    ELSE 0

\* what one row adds to its person's running total c
MonthlyAdd(base, c) ==
    IF base <= 0 \/ c >= MONTHLY_CAP THEN 0
    ELSE IF c + base <= MONTHLY_CAP THEN base
    ELSE MONTHLY_CAP - c

\* the sum of column col over the rows at the indices of g
RECURSIVE SumAt(_, _)
SumAt(col, g) ==
    IF g = <<>> THEN 0 ELSE col[g[1]] + SumAt(col, Tail(g))

\* df.groupby("name")["row_final"].sum()
TotalsOf(rows, final) ==
    [n \in RowNames(rows) |-> SumAt(final, NameGroupIndex(rows, n))]

\* rules.py:87-97 for one group g: running total c, column out
RECURSIVE DailyGroupPass(_, _, _, _)
DailyGroupPass(base, g, c, out) ==
    IF g = <<>> THEN out
    ELSE LET add == DailyAdd(base[g[1]], c)
         IN  DailyGroupPass(base, Tail(g), c + add, [out EXCEPT ![g[1]] = add])

\* rules.py:86-97 over the groups named by keys
RECURSIVE DailyPass(_, _, _, _)
DailyPass(rows, base, keys, out) ==
    IF keys = <<>> THEN out
    ELSE DailyPass(rows, base, Tail(keys),
                   DailyGroupPass(base, DayGroupIndex(rows, keys[1]), 0, out))

\* rules.py:102-112 for one group g
RECURSIVE MonthlyGroupPass(_, _, _, _)
MonthlyGroupPass(daily, g, c, out) ==
    IF g = <<>> THEN out
    ELSE LET add == MonthlyAdd(daily[g[1]], c)
         IN  MonthlyGroupPass(daily, Tail(g), c + add, [out EXCEPT ![g[1]] = add])

\* rules.py:101-112 over the groups named by keys
RECURSIVE MonthlyPass(_, _, _, _)
MonthlyPass(rows, daily, keys, out) ==
    IF keys = <<>> THEN out
    ELSE MonthlyPass(rows, daily, Tail(keys),
                     MonthlyGroupPass(daily, NameGroupIndex(rows, keys[1]), 0, out))

\* the whole calculator, for a frame with at least one row
compute_allowance_by_person(rows) ==
    LET base  == RowBaseOf(rows)
        daily == DailyPass(rows, base, DayGroups(rows), Zeros(rows))
        final == MonthlyPass(rows, daily, NameGroups(rows), Zeros(rows))
    IN  TotalsOf(rows, final)

---------------------------------------------------------------------------
(* core/pdf_analyzer.py : summary and merge                                *)
(* A summary row is [total_pdf, under4, over4, car_cnt] and, once merged,  *)
(* also [calc_total, diff].                                                *)

\* the per-name sum of a column of flags
CountAt(flags, g) == Len(SelectSeq(g, LAMBDA i : flags[i]))

\* the columns is_under4, is_over4 and car_cnt
IsUnder4(rows) == [i \in 1..Len(rows) |-> rows[i].minutes > 0 /\ rows[i].minutes < 240]

IsOver4(rows) == [i \in 1..Len(rows) |-> rows[i].minutes >= 240]

CarCnt(rows) == [i \in 1..Len(rows) |-> rows[i].car_used]

\* a per-name total that keeps only the last record of each name
ReportedTotal_lastonly(rows, g) == rows[g[Len(g)]].amount_pdf

\* the per-name sum of amount_pdf
ReportedTotal(rows, g) == SumAt([i \in 1..Len(rows) |-> rows[i].amount_pdf], g)

summarize_pdf_by_person(rows) ==
    [n \in RowNames(rows) |->
        LET g == NameGroupIndex(rows, n)
        IN  [total_pdf |-> ReportedTotal(rows, g),
             under4    |-> CountAt(IsUnder4(rows), g),
             over4     |-> CountAt(IsOver4(rows), g),
             car_cnt   |-> CountAt(CarCnt(rows), g)]]

\* analyze_pdf_and_template, step 4: calc_totals aligned to the summary's
\* index (0 where absent), and the difference
MergeSummary(psum, totals) ==
    [n \in DOMAIN psum |->
        LET calc == IF n \in DOMAIN totals THEN totals[n] ELSE 0
        IN  [total_pdf  |-> psum[n].total_pdf,
             under4     |-> psum[n].under4,
             over4      |-> psum[n].over4,
             car_cnt    |-> psum[n].car_cnt,
             calc_total |-> calc,
             diff       |-> calc - psum[n].total_pdf]]

---------------------------------------------------------------------------
(* Text operations of Python's str *)

IsSpace(ch) == ch \in {" ", "\n"}

RECURSIVE LStrip(_)
LStrip(s) == IF s # <<>> /\ IsSpace(s[1]) THEN LStrip(Tail(s)) ELSE s

RECURSIVE RStrip(_)
RStrip(s) ==
    IF s # <<>> /\ IsSpace(s[Len(s)]) THEN RStrip(SubSeq(s, 1, Len(s) - 1)) ELSE s

\* str.strip()
Strip(s) == RStrip(LStrip(s))

---------------------------------------------------------------------------
(* core/pdf_analyzer.py : the voucher worksheet                            *)
(* A worksheet is the sequence of its rows; a row holds the cells of the   *)
(* columns the writer touches: A (no), C (name), D (under4), E (over4),    *)
(* F (car), G (g), H (pdf_amt), L (calc_amt), and the fonts of H and L.   *)

HEADER_ROW              == 4
DATA_START_ROW          == 5
MAX_ROWS_WITHOUT_INSERT == 21
BASE_SUM_ROW            == DATA_START_ROW + MAX_ROWS_WITHOUT_INSERT

None  == [t |-> "none"]                     \* a cell never written
Blank == [t |-> "blank"]                    \* the empty string ""
Num(n) == [t |-> "num", n |-> n]
Txt(s) == [t |-> "text", s |-> s]
Label(l) == [t |-> "label", l |-> l]        \* fixed text of the template
SumFormula(first, last) == [t |-> "sum", first |-> first, last |-> last]

EmptyRow ==
    [no |-> None, name |-> None, under4 |-> None, over4 |-> None, car |-> None,
     g |-> None, pdf_amt |-> None, calc_amt |-> None, h_font |-> "default", l_font |-> "default"]

\* The template the module docstring assumes: the name header in row 4, 21
\* empty data rows 5..25, the totals row 26 (label in A26, H26 either empty
\* or holding the template's own sum), and a closing row below it.
TemplateSheet(h26) ==
    [r \in 1..(BASE_SUM_ROW + 1) |->
        IF r = HEADER_ROW THEN [EmptyRow EXCEPT !.name = Label("name")]
        ELSE IF r = BASE_SUM_ROW
             THEN [EmptyRow EXCEPT !.no = Label("total"), !.pdf_amt = h26]
        ELSE IF r = BASE_SUM_ROW + 1 THEN [EmptyRow EXCEPT !.no = Label("closing")]
        ELSE EmptyRow]

Templates ==
    {TemplateSheet(None),
     TemplateSheet(SumFormula(DATA_START_ROW, BASE_SUM_ROW - 1))}

\* ws.insert_rows(idx, amount): the rows from idx on move down by amount
InsertRows(sheet, idx, amount) ==
    SubSeq(sheet, 1, idx - 1) \o [i \in 1..amount |-> EmptyRow]
        \o SubSeq(sheet, idx, Len(sheet))

\* only a recomputed amount other than 0 counts as a discrepancy
Differs_nonzero(r, br) == r.calc_total # 0 /\ r.total_pdf # r.calc_total

\* pdf_analyzer.py:178-186 holds both sides of an unmerged change: on side
\* "codex" the test is diff != 0 (the summary's difference column), on side
\* "main" it is amount_pdf != amount_calc.
Differs(r, br) ==
    IF br = "codex" THEN r.diff # 0 ELSE r.total_pdf # r.calc_total

\* the cells of one person's row (idx: the person's number in sorted order)
PersonRow(old, idx, name_str, r, br) ==
    [old EXCEPT
        !.no       = Num(idx),
        !.name     = Txt(name_str),
        !.under4   = IF r.under4 = 0 THEN Blank ELSE Num(r.under4),
        !.over4    = IF r.over4 = 0 THEN Blank ELSE Num(r.over4),
        !.car      = IF r.car_cnt = 0 THEN Blank ELSE Num(r.car_cnt),
        !.pdf_amt  = IF r.total_pdf = 0 THEN Blank ELSE Num(r.total_pdf),
        !.calc_amt = IF Differs(r, br) THEN Num(r.calc_total) ELSE Blank,
        !.h_font   = IF Differs(r, br) THEN "red_bold" ELSE @,
        !.l_font   = IF Differs(r, br) THEN "red_bold" ELSE @]

\* the loop over enumerate(people, start=1): a person whose stripped name is
\* empty is skipped (its number is spent, the row is not)
RECURSIVE WritePeople(_, _, _, _, _, _)
WritePeople(sheet, people, summ, idx, current_row, br) ==
    IF idx > Len(people) THEN [ws |-> sheet, current_row |-> current_row]
    ELSE LET name_str == Strip(people[idx])
         IN  IF name_str = <<>>
             THEN WritePeople(sheet, people, summ, idx + 1, current_row, br)
             ELSE WritePeople(
                    [sheet EXCEPT ![current_row] =
                        PersonRow(@, idx, name_str, summ[people[idx]], br)],
                    people, summ, idx + 1, current_row + 1, br)

\* one row too few is inserted
ExtraRows_short(n) == n - MAX_ROWS_WITHOUT_INSERT - 1

\* pdf_analyzer.py:142: the rows to insert for a roster of n > 21 persons
ExtraRows(n) == n - MAX_ROWS_WITHOUT_INSERT

\* the totals formula is set whether or not a row was written
SetTotal_always(sheet, total, last) ==
    [sheet EXCEPT ![total].pdf_amt = SumFormula(DATA_START_ROW, last)]

\* pdf_analyzer.py:200-203
SetTotal(sheet, total, last) ==
    IF last >= DATA_START_ROW
    THEN [sheet EXCEPT ![total].pdf_amt = SumFormula(DATA_START_ROW, last)]
    ELSE sheet

\* the last row is taken one too low
LastDataRow_offbyone(current_row) == current_row

\* pdf_analyzer.py:195: the row of the last person written
LastDataRow(current_row) == current_row - 1

\* pdf_analyzer.py:135-208: the workbook and the locals at return
FillPeople(tmpl, summ, br, people) ==
    LET n       == Len(people)
        extra   == IF n > MAX_ROWS_WITHOUT_INSERT THEN ExtraRows(n) ELSE 0
        sheet0  == IF n > MAX_ROWS_WITHOUT_INSERT
                   THEN InsertRows(tmpl, BASE_SUM_ROW, extra)
                   ELSE tmpl
        total   == IF n > MAX_ROWS_WITHOUT_INSERT
                   THEN BASE_SUM_ROW + extra
                   ELSE BASE_SUM_ROW
        written == WritePeople(sheet0, people, summ, 1, DATA_START_ROW, br)
        last    == LastDataRow(written.current_row)
    IN  [ws            |-> SetTotal(written.ws, total, last),
         n_people      |-> n,
         total_row     |-> total,
         last_data_row |-> last]

\* without the early return, and with the totals formula always set
fill_template_always_total(tmpl, summ, br) ==
    LET out == FillPeople(tmpl, summ, br, SortTexts(DOMAIN summ))
    IN  [out EXCEPT !.ws = SetTotal_always(out.ws, out.total_row, out.last_data_row)]

\* pdf_analyzer.py:97-208; with no person the function returns the workbook
\* as loaded, before total_row and last_data_row are set (0 here)
fill_template_with_summary(tmpl, summ, br) ==
    LET people == SortTexts(DOMAIN summ)
    IN  IF Len(people) = 0
        THEN [ws |-> tmpl, n_people |-> 0, total_row |-> 0, last_data_row |-> 0]
        ELSE FillPeople(tmpl, summ, br, people)

---------------------------------------------------------------------------
(* src/pdf_analyzer.py : the older writer, which fills the rows of a       *)
(* template that already carries the names in column C                     *)

START_ROW == 5

\* `not name_val`: an empty cell or an empty text
Falsy(cell) == cell \in {None, Blank, Txt(<<>>)}

\* str(name_val).strip() of a text cell
CellNameStr(cell) == IF cell.t = "text" THEN Strip(cell.s) ELSE <<>>

\* pdf_analyzer.py:100-106: the summary row of a template name, by exact
\* match of the stripped name; all zeros when the name is not in the index
LookupRow(summ, name_str) ==
    IF name_str \in DOMAIN summ THEN summ[name_str]
    ELSE [total_pdf |-> 0, under4 |-> 0, over4 |-> 0, car_cnt |-> 0,
          calc_total |-> 0, diff |-> 0]

\* pdf_analyzer.py:108-124: the cells written for one template row
ExistingRow(old, r) ==
    [old EXCEPT
        !.under4   = IF r.under4 = 0 THEN Blank ELSE Num(r.under4),
        !.over4    = IF r.over4 = 0 THEN Blank ELSE Num(r.over4),
        !.car      = IF r.car_cnt = 0 THEN Blank ELSE Num(r.car_cnt),
        !.pdf_amt  = IF r.total_pdf = 0 THEN Blank ELSE Num(r.total_pdf),
        !.calc_amt = IF r.total_pdf # r.calc_total THEN Num(r.calc_total) ELSE Blank,
        !.h_font   = IF r.total_pdf # r.calc_total THEN "red_bold" ELSE @]

\* pdf_analyzer.py:84-127: from row on, until a row without a name (or the
\* row of the totals label); yields the sheet and last_filled_row
RECURSIVE FillNamedRows(_, _, _, _)
FillNamedRows(sheet, summ, row, last_filled) ==
    IF row > Len(sheet) \/ Falsy(sheet[row].name) \/ sheet[row].name = Label("total")
    THEN [ws |-> sheet, last_filled_row |-> last_filled]
    ELSE FillNamedRows(
            [sheet EXCEPT ![row] =
                ExistingRow(@, LookupRow(summ, CellNameStr(sheet[row].name)))],
            summ, row + 1, row)

\* a cell of a row past the sheet's last row comes into being when addressed
Grown(sheet, r) ==
    IF r > Len(sheet) THEN sheet \o [i \in 1..(r - Len(sheet)) |-> EmptyRow]
    ELSE sheet

\* src/pdf_analyzer.py:55-140
fill_existing_template(tmpl, summ) ==
    LET header_row == START_ROW - 1
        sheet0 == IF Falsy(tmpl[header_row].calc_amt)
                  THEN [tmpl EXCEPT ![header_row].calc_amt = Label("calc")]
                  ELSE tmpl
        filled == FillNamedRows(sheet0, summ, START_ROW, START_ROW - 1)
        last   == filled.last_filled_row
    IN  IF last >= START_ROW
        THEN LET total  == last + 1
                 sheet1 == Grown(filled.ws, total)
                 sheet2 == IF Falsy(sheet1[total].g)
                           THEN [sheet1 EXCEPT ![total].g = Label("total")]
                           ELSE sheet1
             IN  [ws |-> [sheet2 EXCEPT ![total].pdf_amt = SumFormula(START_ROW, last)],
                  total_row |-> total, last_data_row |-> last]
        ELSE [ws |-> filled.ws, total_row |-> 0, last_data_row |-> last]

---------------------------------------------------------------------------
(* Idle values of the variable groups an operation does not use *)

RowIdle == minutes = 0 /\ car_used = FALSE /\ amt = 0

NormIdle == raw_row = <<>> /\ trip = <<>>

ParseIdle == doc = <<>> /\ df_all = <<>> /\ df_final = <<>> /\ parse_error = ""

\* app.py: st.file_uploader returns None
NoUpload == [name |-> "", size |-> 0, doc |-> <<>>]

\* no file at TEMPLATE_PATH
NoTemplate == [state |-> "missing", sheet |-> <<>>]

UiIdle ==
    /\ uploaded_pdf = NoUpload /\ run_button = FALSE /\ template_file = NoTemplate
    /\ summary_df = <<>> /\ result_bytes = <<>> /\ last_error = ""
    /\ last_pdf_fingerprint = <<>> /\ shown = "" /\ results_of = NoUpload

RulesIdle ==
    /\ df_rows = <<>> /\ row_base = <<>> /\ row_daily_limited = <<>>
    /\ row_final = <<>> /\ cum = 0 /\ grp = 0 /\ pos = 0
    /\ person_totals = <<>>

SummaryIdle == pdf_summary = <<>> /\ summary = <<>>

FillIdle ==
    /\ template = <<>> /\ branch = "main" /\ ws = <<>>
    /\ n_people = 0 /\ total_row = 0 /\ last_data_row = 0

otherVars == <<pdf_summary, summary, fillVars, normVars, parseVars, uiVars>>

---------------------------------------------------------------------------
(* Specification SpecRow: one call of calc_row_amount *)

InitRow ==
    /\ pc = "call"
    /\ minutes \in (0 - MaxNegMinutes)..MaxMinutes
    /\ car_used \in BOOLEAN
    /\ amt = 0
    /\ RulesIdle
    /\ ParseIdle
    /\ UiIdle
    /\ NormIdle
    /\ SummaryIdle
    /\ FillIdle

CalcRow ==
    /\ pc = "call"
    /\ amt' = calc_row_amount(minutes, car_used)
    /\ pc' = "done"
    /\ UNCHANGED <<minutes, car_used, rulesVars, otherVars>>

NextRow == CalcRow

SpecRow == InitRow /\ [][NextRow]_vars

\* C1: for m >= 0, calc_row_amount(m, v) is 0 below 60 minutes, 10000 from 60
\* to 239 and 20000 from 240 on, less 10000 when v holds and the tier amount is
\* positive; it is never negative and, for a fixed v, no shorter duration gives
\* a larger amount; (30,F)=0, (90,F)=10000, (300,T)=10000, (90,T)=0.
RowAmountTiers ==
    (pc = "done" /\ minutes >= 0) =>
        LET tier == IF minutes < 60 THEN 0
                    ELSE IF minutes < 240 THEN 10000 ELSE 20000
        IN  /\ amt = (IF car_used /\ tier > 0 THEN tier - 10000 ELSE tier)
            /\ amt >= 0
            /\ \A m \in 0..minutes : calc_row_amount(m, car_used) <= amt
            /\ (minutes = 30 /\ ~car_used) => amt = 0
            /\ (minutes = 90 /\ ~car_used) => amt = 10000
            /\ (minutes = 300 /\ car_used) => amt = 10000
            /\ (minutes = 90 /\ car_used) => amt = 0

RowAmountWitness ==
    pc = "done" /\ minutes = 60 /\ ~car_used /\ amt = 10000

---------------------------------------------------------------------------
(* Specification SpecAllowance: compute_allowance_by_person, one loop      *)
(* iteration per step.                                                     *)

PersonNames == {<<"a">>, <<"b">>}

FreeDates == {1, 2}

FreeMinutes == {30, 90, 300}

\* arbitrary calculator rows
FreeRows ==
    [name : PersonNames, start_date : FreeDates, minutes : FreeMinutes,
     car_used : BOOLEAN]

\* the i-th bulk row: a trip of a full day's allowance on a day of its own
BulkRow(i) ==
    [name |-> <<"a">>, start_date |-> 2 + i, minutes |-> 300, car_used |-> FALSE]

BulkRows(b) == [i \in 1..b |-> BulkRow(i)]

AllowanceInputs ==
    NonEmptySeqsUpTo(FreeRows, MaxFree)
    \cup {h \o BulkRows(b) : h \in SeqsUpTo(FreeRows, MaxHead),
                             b \in (MaxBulk - 1)..MaxBulk}

InitAllowance ==
    /\ pc = "row_base"
    /\ df_rows \in AllowanceInputs
    /\ row_base = <<>> /\ row_daily_limited = <<>> /\ row_final = <<>>
    /\ cum = 0 /\ grp = 0 /\ pos = 0
    /\ person_totals = <<>>
    /\ RowIdle
    /\ NormIdle
    /\ SummaryIdle
    /\ ParseIdle
    /\ UiIdle
    /\ FillIdle

\* rules.py:76-85: row_base for every row, row_daily_limited = 0
RowBase ==
    /\ pc = "row_base"
    /\ row_base' = RowBaseOf(df_rows)
    /\ row_daily_limited' = Zeros(df_rows)
    /\ grp' = 1
    /\ pc' = "daily_group"
    /\ UNCHANGED <<df_rows, row_final, cum, pos, person_totals, rowVars, otherVars>>

\* rules.py:86-87: the next (name, start_date) group; cum = 0
DailyNextGroup ==
    /\ pc = "daily_group"
    /\ grp <= Len(DayGroups(df_rows))
    /\ cum' = 0
    /\ pos' = 1
    /\ pc' = "daily_row"
    /\ UNCHANGED <<df_rows, row_base, row_daily_limited, row_final, grp,
                   person_totals, rowVars, otherVars>>

\* rules.py:88-97: one row of the group
DailyStep ==
    /\ pc = "daily_row"
    /\ LET g   == DayGroupIndex(df_rows, DayGroups(df_rows)[grp])
           idx == g[pos]
           add == DailyAdd(row_base[idx], cum)
       IN  /\ cum' = cum + add
           /\ row_daily_limited' = [row_daily_limited EXCEPT ![idx] = add]
           /\ IF pos < Len(g)
              THEN pos' = pos + 1 /\ UNCHANGED <<pc, grp>>
              ELSE pc' = "daily_group" /\ grp' = grp + 1 /\ UNCHANGED pos
    /\ UNCHANGED <<df_rows, row_base, row_final, person_totals, rowVars, otherVars>>

\* rules.py:100: the daily pass is over; row_final = 0
DailyDone ==
    /\ pc = "daily_group"
    /\ grp > Len(DayGroups(df_rows))
    /\ row_final' = Zeros(df_rows)
    /\ grp' = 1
    /\ pc' = "monthly_group"
    /\ UNCHANGED <<df_rows, row_base, row_daily_limited, cum, pos,
                   person_totals, rowVars, otherVars>>

\* rules.py:101-102: the next name group; cum = 0
MonthlyNextGroup ==
    /\ pc = "monthly_group"
    /\ grp <= Len(NameGroups(df_rows))
    /\ cum' = 0
    /\ pos' = 1
    /\ pc' = "monthly_row"
    /\ UNCHANGED <<df_rows, row_base, row_daily_limited, row_final, grp,
                   person_totals, rowVars, otherVars>>

\* rules.py:103-112: one row of the group
MonthlyStep ==
    /\ pc = "monthly_row"
    /\ LET g   == NameGroupIndex(df_rows, NameGroups(df_rows)[grp])
           idx == g[pos]
           add == MonthlyAdd(row_daily_limited[idx], cum)
       IN  /\ cum' = cum + add
           /\ row_final' = [row_final EXCEPT ![idx] = add]
           /\ IF pos < Len(g)
              THEN pos' = pos + 1 /\ UNCHANGED <<pc, grp>>
              ELSE pc' = "monthly_group" /\ grp' = grp + 1 /\ UNCHANGED pos
    /\ UNCHANGED <<df_rows, row_base, row_daily_limited, person_totals,
                   rowVars, otherVars>>

\* rules.py:114-116: the totals by name
Totals ==
    /\ pc = "monthly_group"
    /\ grp > Len(NameGroups(df_rows))
    /\ person_totals' = TotalsOf(df_rows, row_final)
    /\ pc' = "done"
    /\ UNCHANGED <<df_rows, row_base, row_daily_limited, row_final, cum, grp,
                   pos, rowVars, otherVars>>

NextAllowance ==
    \/ RowBase
    \/ DailyNextGroup
    \/ DailyStep
    \/ DailyDone
    \/ MonthlyNextGroup
    \/ MonthlyStep
    \/ Totals

SpecAllowance == InitAllowance /\ [][NextAllowance]_vars

DailyPassOver == pc \in {"monthly_group", "monthly_row", "done"}

\* C2: in every (name, start date) group the running total of the daily pass
\* is at most 20000 after every step, so the group's daily-limited
\* contributions sum to at most 20000; and once the pass is over, a group
\* whose base amounts sum to at most 20000 has every contribution equal to
\* its base amount.
DailyCapHolds ==
    /\ pc \in {"daily_group", "daily_row"} => cum <= 20000
    /\ Len(row_daily_limited) = Len(df_rows) =>
         \A k \in {<<df_rows[i].name, df_rows[i].start_date>> :
                     i \in 1..Len(df_rows)} :
            LET g == DayGroupIndex(df_rows, k)
            IN  /\ SumAt(row_daily_limited, g) <= 20000
                /\ (DailyPassOver /\ SumAt(row_base, g) <= 20000) =>
                      \A j \in 1..Len(g) :
                          row_daily_limited[g[j]] = row_base[g[j]]

\* a day on which a trip was cut to what was left of the day's 20000
DailyCapWitness ==
    /\ pc = "done"
    /\ \E i \in 1..Len(df_rows) :
          0 < row_daily_limited[i] /\ row_daily_limited[i] < row_base[i]

\* C3: the monthly pass runs over the daily-limited contributions of each
\* name, all dates together: no returned total exceeds 280000, and a name
\* whose daily-limited contributions sum to at most 280000 keeps every one of
\* them, its total being exactly that sum.
MonthlyCapHolds ==
    pc = "done" =>
        /\ DOMAIN person_totals = RowNames(df_rows)
        /\ \A n \in RowNames(df_rows) :
              LET g == NameGroupIndex(df_rows, n)
              IN  /\ person_totals[n] <= 280000
                  /\ SumAt(row_daily_limited, g) <= 280000 =>
                        /\ \A j \in 1..Len(g) :
                              row_final[g[j]] = row_daily_limited[g[j]]
                        /\ person_totals[n] = SumAt(row_daily_limited, g)

\* a person over the monthly ceiling, on more than one date
MonthlyCapWitness ==
    /\ pc = "done"
    /\ \E n \in RowNames(df_rows) :
          /\ SumAt(row_daily_limited, NameGroupIndex(df_rows, n)) > 280000
          /\ person_totals[n] = 280000
          /\ \E i, j \in 1..Len(df_rows) :
                /\ df_rows[i].name = n /\ df_rows[j].name = n
                /\ df_rows[i].start_date # df_rows[j].start_date

---------------------------------------------------------------------------
(* Specification SpecAnalyze: analyze_pdf_and_template from the parsed     *)
(* records on.  (With no record at all the calculator's outcome is the     *)
(* frame library's, so the inputs have at least one record.)               *)

TripKinds ==
    {[minutes |-> 90,  car_used |-> FALSE, amount_pdf |-> 10000],
     [minutes |-> 300, car_used |-> FALSE, amount_pdf |-> 20000],
     [minutes |-> 30,  car_used |-> FALSE, amount_pdf |-> 0],
     [minutes |-> 90,  car_used |-> TRUE,  amount_pdf |-> 10000],
     [minutes |-> 300, car_used |-> TRUE,  amount_pdf |-> 10000]}

TripRow(n, d, k) ==
    [name |-> n, start_date |-> d, minutes |-> k.minutes,
     car_used |-> k.car_used, amount_pdf |-> k.amount_pdf]

AnalyzeRows == {TripRow(n, d, k) : n \in PersonNames, d \in FreeDates, k \in TripKinds}

AnalyzeInputs == NonEmptySeqsUpTo(AnalyzeRows, MaxTrips)

Branches == {"codex", "main"}

InitAnalyze ==
    /\ pc = "parsed"
    /\ df_rows \in AnalyzeInputs
    /\ row_base = <<>> /\ row_daily_limited = <<>> /\ row_final = <<>>
    /\ cum = 0 /\ grp = 0 /\ pos = 0
    /\ person_totals = <<>>
    /\ RowIdle
    /\ NormIdle
    /\ SummaryIdle
    /\ ParseIdle
    /\ UiIdle
    /\ template \in Templates
    /\ branch \in Branches
    /\ ws = <<>> /\ n_people = 0 /\ total_row = 0 /\ last_data_row = 0

\* pdf_analyzer.py:229
Summarize ==
    /\ pc = "parsed"
    /\ pdf_summary' = summarize_pdf_by_person(df_rows)
    /\ pc' = "summarized"
    /\ UNCHANGED <<parseVars, uiVars, normVars, rowVars, rulesVars, summary, fillVars>>

\* pdf_analyzer.py:232
Compute ==
    /\ pc = "summarized"
    /\ person_totals' = compute_allowance_by_person(df_rows)
    /\ pc' = "computed"
    /\ UNCHANGED <<parseVars, uiVars, normVars, rowVars, df_rows, row_base, row_daily_limited, row_final,
                   cum, grp, pos, pdf_summary, summary, fillVars>>

\* pdf_analyzer.py:236-239
Merge ==
    /\ pc = "computed"
    /\ summary' = MergeSummary(pdf_summary, person_totals)
    /\ pc' = "fill_call"
    /\ UNCHANGED <<parseVars, uiVars, normVars, rowVars, rulesVars, pdf_summary, fillVars>>

\* core/pdf_analyzer.py:97-208 (called at 242)
Fill ==
    /\ pc = "fill_call"
    /\ LET out == fill_template_with_summary(template, summary, branch)
       IN  /\ ws' = out.ws
           /\ n_people' = out.n_people
           /\ total_row' = out.total_row
           /\ last_data_row' = out.last_data_row
    /\ pc' = "filled"
    /\ UNCHANGED <<parseVars, uiVars, normVars, rowVars, rulesVars, pdf_summary, summary, template, branch>>

NextAnalyze == Summarize \/ Compute \/ Merge \/ Fill

SpecAnalyze == InitAnalyze /\ [][NextAnalyze]_vars

\* the reported amounts of the records of name n, in record order
AmountsOf(rows, n) ==
    LET sel == SelectSeq(rows, LAMBDA r : r.name = n)
    IN  [i \in 1..Len(sel) |-> sel[i].amount_pdf]

ExampleTrips ==
    <<TripRow(<<"a">>, 1, [minutes |-> 90, car_used |-> FALSE, amount_pdf |-> 10000]),
      TripRow(<<"a">>, 1, [minutes |-> 300, car_used |-> FALSE, amount_pdf |-> 20000])>>

\* C4: the merged summary has exactly one row per distinct name of the
\* records; its reported total is the sum of the name's amount_pdf, its
\* recomputed total the calculator's value for the name (0 if absent), its
\* delta recomputed - reported.  Two same-day trips of 90 and 300 minutes
\* reported at 10000 and 20000 give 20000, 30000 and -10000.
MergedSummaryRows ==
    pc \in {"fill_call", "filled"} =>
        /\ DOMAIN summary = RowNames(df_rows)
        /\ \A n \in DOMAIN summary :
              /\ summary[n].total_pdf = SumSeq(AmountsOf(df_rows, n))
              /\ summary[n].calc_total =
                    (IF n \in DOMAIN person_totals THEN person_totals[n] ELSE 0)
              /\ summary[n].diff = summary[n].calc_total - summary[n].total_pdf
        /\ df_rows = ExampleTrips =>
              /\ summary[<<"a">>].calc_total = 20000
              /\ summary[<<"a">>].total_pdf = 30000
              /\ summary[<<"a">>].diff = 0 - 10000

\* the example's run, to its end
MergedSummaryWitness ==
    /\ pc = "filled"
    /\ df_rows = ExampleTrips
    /\ summary[<<"a">>].diff = 0 - 10000

\* a person whose recomputed total is 0 still has a row
MergedZeroRowReached ==
    /\ pc = "filled"
    /\ \E n \in DOMAIN summary : summary[n].calc_total = 0 /\ summary[n].total_pdf > 0

---------------------------------------------------------------------------
(* Specification SpecFill: one call of a template writer on a merged       *)
(* summary: no person at all, a few arbitrary trips, or a roster of n      *)
(* named persons (and possibly one whose name cell held only the           *)
(* parenthesised ID, so that the extracted name is empty).                 *)

\* the name of the i-th person of a roster: "b", "aa", "ba", "aaa", ...
NameOf(i) ==
    <<IF i % 2 = 1 THEN "b" ELSE "a">> \o [j \in 1..(i \div 2) |-> "a"]

K90      == [minutes |-> 90,  car_used |-> FALSE, amount_pdf |-> 10000]
K300     == [minutes |-> 300, car_used |-> FALSE, amount_pdf |-> 20000]
K30      == [minutes |-> 30,  car_used |-> FALSE, amount_pdf |-> 0]
K90car   == [minutes |-> 90,  car_used |-> TRUE,  amount_pdf |-> 10000]
K300zero == [minutes |-> 300, car_used |-> FALSE, amount_pdf |-> 0]

\* the trips of one person: agreeing, over the daily cap, nothing at all,
\* recomputed 0 against a reported amount, reported 0 against a recomputed one
TripPatterns == << <<K90>>, <<K90, K300>>, <<K30>>, <<K90car>>, <<K300zero>> >>

PersonTrips(name, pat) == [j \in 1..Len(pat) |-> TripRow(name, 1, pat[j])]

\* analyze_pdf_and_template, steps 2 to 4
MergedOf(rows) ==
    MergeSummary(summarize_pdf_by_person(rows), compute_allowance_by_person(rows))

PatternOf(i, shift) == TripPatterns[((i + shift) % Len(TripPatterns)) + 1]

\* The merged summary of a roster of n persons, person i having the trips of
\* pattern i + shift, and with blank one more person of the empty name.
\* Persons do not share records, so each row is the merged summary of the
\* person's own trips.
RosterSummary(n, shift, blank) ==
    [nm \in {NameOf(i) : i \in 1..n} \cup (IF blank THEN {<<>>} ELSE {}) |->
        IF nm = <<>> THEN MergedOf(PersonTrips(<<>>, <<K90>>))[<<>>]
        ELSE LET i == CHOOSE j \in 1..n : NameOf(j) = nm
             IN  MergedOf(PersonTrips(nm, PatternOf(i, shift)))[nm]]

\* summaries of whole rosters, written into the empty template
RosterSummaries ==
    {RosterSummary(n, shift, blank) :
        n \in 1..MaxPeople, shift \in 0..(Len(TripPatterns) - 1), blank \in BOOLEAN}
    \cup {RosterSummary(0, 0, TRUE)}

\* names as the older writer's templates and their summaries spell them
SpacedNames == {<<"a", "b">>, <<"a", " ", "b">>, <<"b">>}

SpacedInputs ==
    NonEmptySeqsUpTo({TripRow(n, 1, k) : n \in SpacedNames, k \in {K90, K300zero}}, 2)

\* no person at all, or a few persons of the spaced names
SmallSummaries == {<<>>} \cup {MergedOf(rows) : rows \in SpacedInputs}

\* a template whose rows from START_ROW on already carry names
NamedTemplate(names) ==
    [r \in 1..(BASE_SUM_ROW + 1) |->
        IF r >= START_ROW /\ r < START_ROW + Len(names)
        THEN [TemplateSheet(None)[r] EXCEPT !.name = Txt(names[r - START_ROW + 1])]
        ELSE TemplateSheet(None)[r]]

TemplateNames == SpacedNames \cup {<<" ", "a", "b">>}

NamedTemplates ==
    {NamedTemplate(ns) : ns \in NonEmptySeqsUpTo(TemplateNames, MaxNamed + 1)}

\* <<summary, template>>
FillCases ==
    (RosterSummaries \X Templates)
    \cup (SmallSummaries \X (Templates \cup NamedTemplates))

InitFill ==
    /\ pc = "fill_call"
    /\ \E c \in FillCases : summary = c[1] /\ template = c[2]
    /\ branch \in Branches
    /\ ws = <<>> /\ n_people = 0 /\ total_row = 0 /\ last_data_row = 0
    /\ pdf_summary = <<>>
    /\ RowIdle
    /\ NormIdle
    /\ RulesIdle
    /\ ParseIdle
    /\ UiIdle

\* src/pdf_analyzer.py:55-140
FillExisting ==
    /\ pc = "fill_call"
    /\ LET out == fill_existing_template(template, summary)
       IN  /\ ws' = out.ws
           /\ total_row' = out.total_row
           /\ last_data_row' = out.last_data_row
    /\ pc' = "filled_existing"
    /\ UNCHANGED <<parseVars, uiVars, normVars, rowVars, rulesVars, pdf_summary, summary, template, branch,
                   n_people>>

NextFill == Fill \/ FillExisting

SpecFill == InitFill /\ [][NextFill]_vars

\* the names the fresh writer writes: stripped, the empty ones dropped
WrittenNames(summ) == {Strip(n) : n \in DOMAIN summ} \ {<<>>}

\* the rows inserted for a roster of n persons, as the claim counts them
InsertedFor(n) == IF n > 21 THEN n - 21 ELSE 0

\* around the totals row, the sheet is the template with InsertedFor(n) rows
\* put in immediately above row 26
InsertedAboveTotals ==
    LET extra == InsertedFor(n_people)
    IN  /\ n_people = Cardinality(DOMAIN summary)
        /\ Len(ws) = Len(template) + extra
        /\ \A r \in 1..4 : ws[r] = template[r]
        /\ ws[26 + extra].no = Label("total")
        /\ \A r \in 1..(25 + extra) : ws[r].no # Label("total")
        /\ \A k \in 1..(Len(template) - 26) : ws[26 + extra + k] = template[26 + k]
        /\ \A r \in 1..Len(ws) : r # 26 + extra => ws[r].pdf_amt.t # "sum"

TotalsFormulaCovers ==
    /\ ws[total_row].pdf_amt = SumFormula(5, last_data_row)
    /\ ws[total_row].no = Label("total")
    /\ last_data_row >= 5
    /\ last_data_row < total_row
    /\ last_data_row - 4 = Cardinality(WrittenNames(summary))
    /\ {ws[r].name : r \in 5..last_data_row} = {Txt(n) : n \in WrittenNames(summary)}
    /\ template \in Templates =>
          {r \in 1..Len(ws) : ws[r].name.t = "text"} = 5..last_data_row

RowOf(summ, name_str) ==
    summ[CHOOSE n \in DOMAIN summ : Strip(n) = name_str]

FlagIffDiffers(cells, r) ==
    /\ r.calc_total # r.total_pdf =>
          cells.calc_amt = Num(r.calc_total) /\ cells.h_font = "red_bold"
    /\ r.calc_total = r.total_pdf =>
          cells.calc_amt = Blank /\ cells.h_font = "default"

\* C7: in every person row either writer fills, the recomputed amount is in
\* the discrepancy column and the reported-amount cell is bold red exactly
\* when recomputed # reported (also when the recomputed amount is 0);
\* otherwise the column is blank and the cell is not flagged.
DiscrepancyFlagged ==
    /\ pc = "filled" =>
          \A r \in 5..last_data_row :
              FlagIffDiffers(ws[r], RowOf(summary, ws[r].name.s))
    /\ pc = "filled_existing" =>
          \A r \in 5..last_data_row :
              FlagIffDiffers(ws[r], LookupRow(summary, CellNameStr(template[r].name)))

\* a flagged row whose recomputed amount is 0, and an unflagged one
DiscrepancyWitness ==
    /\ pc = "filled"
    /\ \E r1, r2 \in 5..last_data_row :
          /\ ws[r1].calc_amt = Num(0) /\ ws[r1].h_font = "red_bold"
          /\ ws[r2].calc_amt = Blank /\ ws[r2].pdf_amt.t = "num"
             /\ ws[r2].h_font = "default"

\* C8: filling a template with an empty summary leaves it unchanged: no data
\* row written, no row inserted, no totals formula set.
EmptyRosterUnchanged ==
    (pc = "filled" /\ DOMAIN summary = {}) =>
        /\ ws = template
        /\ n_people = 0 /\ total_row = 0 /\ last_data_row = 0

\* the empty summary filled into the template without a totals formula
EmptyRosterWitness ==
    /\ pc = "filled"
    /\ DOMAIN summary = {}
    /\ template = TemplateSheet(None)
    /\ ws = template

\* str with its white space removed
RemoveSpaces(s) == SelectSeq(s, LAMBDA ch : ~IsSpace(ch))

CarriesRow(cells, r) ==
    /\ cells.under4  = (IF r.under4 = 0 THEN Blank ELSE Num(r.under4))
    /\ cells.over4   = (IF r.over4 = 0 THEN Blank ELSE Num(r.over4))
    /\ cells.car     = (IF r.car_cnt = 0 THEN Blank ELSE Num(r.car_cnt))
    /\ cells.pdf_amt = (IF r.total_pdf = 0 THEN Blank ELSE Num(r.total_pdf))

\* C9: the older writer matches each template name to a summary entry by
\* exact match and, failing that, by a white-space-insensitive match, so a
\* template name differing from a summary name only in white space gets that
\* person's counts and amounts.
WhitespaceInsensitiveMatch ==
    pc = "filled_existing" =>
        \A r \in 5..last_data_row :
            LET t == CellNameStr(template[r].name)
                S == {s \in DOMAIN summary : RemoveSpaces(s) = RemoveSpaces(t)}
            IN  /\ t \in DOMAIN summary => CarriesRow(ws[r], summary[t])
                /\ (t \notin DOMAIN summary /\ S # {}) =>
                      \E s \in S : CarriesRow(ws[r], summary[s])

\* what the older writer does: exact match of the stripped template name
\* only; any other name gets empty cells
ExactMatchOnly ==
    pc = "filled_existing" =>
        \A r \in 5..last_data_row :
            LET t == CellNameStr(template[r].name)
            IN  /\ t \in DOMAIN summary => CarriesRow(ws[r], summary[t])
                /\ t \notin DOMAIN summary =>
                      /\ ws[r].pdf_amt = Blank /\ ws[r].under4 = Blank
                      /\ ws[r].over4 = Blank /\ ws[r].car = Blank

---------------------------------------------------------------------------
(* core/pdf_parser.py : the text cells of the extracted table              *)
(* A cell is a sequence of characters.  The Korean words the parser looks  *)
(* for are written with one Latin letter per syllable:                     *)
(*   D = 일 (day), H G = 시간 (hour), M = 분 (minute), W = 원 (won),       *)
(*   U S = 사용 (used), N U S = 미사용 (not used),                         *)
(*   T K = 합계 (total), s K = 소계 (subtotal).                            *)

DAY    == <<"D">>
HOUR   == <<"H", "G">>
MINUTE == <<"M">>
USED   == <<"U", "S">>
TOTAL_WORD    == <<"T", "K">>
SUBTOTAL_WORD == <<"s", "K">>

Digits == <<"0", "1", "2", "3", "4", "5", "6", "7", "8", "9">>

\* the regular-expression class \d
IsDigit(ch) == \E d \in 1..Len(Digits) : Digits[d] = ch

DigitVal(ch) == (CHOOSE d \in 1..Len(Digits) : Digits[d] = ch) - 1

\* int() of a run of digits
RECURSIVE DigitsValue(_)
DigitsValue(s) ==
    IF s = <<>> THEN 0
    ELSE 10 * DigitsValue(SubSeq(s, 1, Len(s) - 1)) + DigitVal(s[Len(s)])

\* str.replace(ch, "")
Remove(s, ch) == SelectSeq(s, LAMBDA x : x # ch)

\* the word u stands in s at position i
HasAt(s, i, u) == i + Len(u) - 1 <= Len(s) /\ SubSeq(s, i, i + Len(u) - 1) = u

\* "u in s"
Contains(s, u) == \E i \in 1..Len(s) : HasAt(s, i, u)

\* the last position of the run of digits that starts at i
RunEnd(s, i) ==
    CHOOSE j \in i..Len(s) :
        /\ \A k \in i..j : IsDigit(s[k])
        /\ j = Len(s) \/ ~IsDigit(s[j + 1])

\* re.search(r"(\d+)" + u, s): the leftmost run of digits followed by u
\* (\d+ is greedy, and giving digits back never helps: u has no digit)
SearchNumber(s, u) ==
    LET starts == {i \in 1..Len(s) : IsDigit(s[i]) /\ HasAt(s, RunEnd(s, i) + 1, u)}
    IN  IF starts = {} THEN 0
        ELSE LET i == CHOOSE x \in starts : \A y \in starts : x <= y
             IN  DigitsValue(SubSeq(s, i, RunEnd(s, i)))

parse_minutes(text) ==
    LET s == Remove(Strip(text), " ")
    IN  IF s = <<>> THEN 0
        ELSE SearchNumber(s, DAY) * 24 * 60 + SearchNumber(s, HOUR) * 60
             + SearchNumber(s, MINUTE)

\* the part of s before the first ch; s itself when ch is not in s
Before(s, ch) ==
    IF \E i \in 1..Len(s) : s[i] = ch
    THEN SubSeq(s, 1, (CHOOSE i \in 1..Len(s) :
                          s[i] = ch /\ \A k \in 1..(i - 1) : s[k] # ch) - 1)
    ELSE s

extract_name(raw) == Strip(Before(Before(Strip(raw), "\n"), "("))

\* float(s) of a text without exponent, underscore, inf or nan:
\* an optional sign, digits with at most one point, at least one digit
FloatBody(s) == IF s # <<>> /\ s[1] \in {"-", "+"} THEN Tail(s) ELSE s

IsFloatText(s) ==
    LET b == FloatBody(s)
    IN  /\ \A i \in 1..Len(b) : IsDigit(b[i]) \/ b[i] = "."
        /\ Len(SelectSeq(b, LAMBDA x : x = ".")) <= 1
        /\ \E i \in 1..Len(b) : IsDigit(b[i])

\* int(float(s)): the digits before the point, with the sign
IntOfFloat(s) ==
    LET v == DigitsValue(Before(FloatBody(s), "."))
    IN  IF s[1] = "-" THEN 0 - v ELSE v

to_int_safe(x) ==
    LET s == Remove(Remove(x, ","), " ")
    IN  IF s \in {<<>>, <<"-">>, <<"0", "W">>} THEN 0
        ELSE IF ~ \E i \in 1..Len(s) : IsDigit(s[i]) THEN 0
        ELSE IF IsFloatText(s) THEN IntOfFloat(s)
        ELSE 0

\* str.replace(ch, by)
RECURSIVE ReplaceWith(_, _, _)
ReplaceWith(s, ch, by) ==
    IF s = <<>> THEN <<>>
    ELSE (IF s[1] = ch THEN by ELSE <<s[1]>>) \o ReplaceWith(Tail(s), ch, by)

\* re.sub(r"\s+", " ", s)
RECURSIVE SquashSpaces(_)
SquashSpaces(s) ==
    IF s = <<>> THEN <<>>
    ELSE IF IsSpace(s[1])
         THEN IF Len(s) > 1 /\ IsSpace(s[2]) THEN SquashSpaces(Tail(s))
              ELSE <<" ">> \o SquashSpaces(Tail(s))
    ELSE <<s[1]>> \o SquashSpaces(Tail(s))

\* The elements of the two patterns of _parse_period:
\*   Dg(lo, hi) is \d{lo,hi} (greedy), Ch(c) a literal, Ws(lo) is \s+ (lo = 1)
\*   or \s* (lo = 0), Lazy is .*?
Dg(lo, hi) == [kind |-> "digits", lo |-> lo, hi |-> hi, ch |-> ""]
Ch(c)      == [kind |-> "lit",    lo |-> 1,  hi |-> 1,  ch |-> c]
Ws(lo)     == [kind |-> "ws",     lo |-> lo, hi |-> 0,  ch |-> ""]
Lazy       == [kind |-> "lazy",   lo |-> 0,  hi |-> 0,  ch |-> ""]

DatePattern == <<Dg(4, 4), Ch("-"), Dg(1, 2), Ch("-"), Dg(1, 2)>>
TimePattern == <<Dg(1, 2), Ch(":"), Dg(2, 2)>>

\* (start_date)\s+(start_time)\s*~\s*(end_date)\s+(end_time)
PERIOD_PATTERN ==
    DatePattern \o <<Ws(1)>> \o TimePattern \o <<Ws(0), Ch("~"), Ws(0)>>
        \o DatePattern \o <<Ws(1)>> \o TimePattern

\* (date)\s+(start_time).*?(end_time)
SAME_DAY_PATTERN ==
    DatePattern \o <<Ws(1)>> \o TimePattern \o <<Lazy>> \o TimePattern

\* how many digits stand from position i on, up to cap
RECURSIVE DigitRun(_, _, _)
DigitRun(s, i, cap) ==
    IF cap = 0 \/ i > Len(s) \/ ~IsDigit(s[i]) THEN 0
    ELSE 1 + DigitRun(s, i + 1, cap - 1)

\* how many white-space characters stand from position i on
RECURSIVE SpaceRun(_, _)
SpaceRun(s, i) ==
    IF i > Len(s) \/ ~IsSpace(s[i]) THEN 0
    ELSE 1 + SpaceRun(s, i + 1)

\* <<hi, hi - 1, ..., lo>>
Downto(hi, lo) == [j \in 1..(hi - lo + 1) |-> hi + 1 - j]

\* the lengths element e may take at position i, in the order the regular
\* expression engine tries them
Options(e, s, i) ==
    CASE e.kind = "digits" -> Downto(DigitRun(s, i, e.hi), e.lo)
      [] e.kind = "lit"    -> IF i <= Len(s) /\ s[i] = e.ch THEN <<1>> ELSE <<>>
      [] e.kind = "ws"     -> Downto(SpaceRun(s, i), e.lo)
      [] e.kind = "lazy"   -> [j \in 1..(Len(s) - i + 2) |-> j - 1]

NoMatch == [ok |-> FALSE, ends |-> <<>>]

\* the backtracking match of the elements k.. of pat at position i: the
\* position after each element, for the first way that succeeds
RECURSIVE MatchAt(_, _, _, _)
RECURSIVE TryLens(_, _, _, _, _)
MatchAt(pat, k, s, i) ==
    IF k > Len(pat) THEN [ok |-> TRUE, ends |-> <<>>]
    ELSE TryLens(pat, k, s, i, Options(pat[k], s, i))

TryLens(pat, k, s, i, opts) ==
    IF opts = <<>> THEN NoMatch
    ELSE LET r == MatchAt(pat, k + 1, s, i + opts[1])
         IN  IF r.ok THEN [ok |-> TRUE, ends |-> <<i + opts[1]>> \o r.ends]
             ELSE TryLens(pat, k, s, i, Tail(opts))

\* re.search(pat, s): the match at the leftmost position that has one
RECURSIVE SearchFrom(_, _, _)
SearchFrom(pat, s, i) ==
    IF i > Len(s) + 1 THEN [ok |-> FALSE, start |-> 0, ends |-> <<>>]
    ELSE LET r == MatchAt(pat, 1, s, i)
         IN  IF r.ok THEN [ok |-> TRUE, start |-> i, ends |-> r.ends]
             ELSE SearchFrom(pat, s, i + 1)

\* the text between two positions of a match
Group(s, from, to) == SubSeq(s, from, to - 1)

NoPeriod == [start_date |-> <<>>, start_time |-> <<>>, end_date |-> <<>>, end_time |-> <<>>]

\* the groups of the first pattern that matches s: m1 is the search for
\* PERIOD_PATTERN, m2 the search for SAME_DAY_PATTERN
PeriodGroups(s, m1, m2) ==
    IF m1.ok
    THEN [start_date |-> Group(s, m1.start, m1.ends[5]),
          start_time |-> Group(s, m1.ends[6], m1.ends[9]),
          end_date   |-> Group(s, m1.ends[12], m1.ends[17]),
          end_time   |-> Group(s, m1.ends[18], m1.ends[21])]
    ELSE IF m2.ok
    THEN [start_date |-> Group(s, m2.start, m2.ends[5]),
          start_time |-> Group(s, m2.ends[6], m2.ends[9]),
          end_date   |-> Group(s, m2.start, m2.ends[5]),
          end_time   |-> Group(s, m2.ends[10], m2.ends[13])]
    ELSE NoPeriod

\* the two searches over the normalised text s
PeriodIn(s) ==
    PeriodGroups(s, SearchFrom(PERIOD_PATTERN, s, 1), SearchFrom(SAME_DAY_PATTERN, s, 1))

parse_period(text) ==
    IF Strip(text) = <<>> THEN NoPeriod
    ELSE PeriodIn(SquashSpaces(ReplaceWith(ReplaceWith(Strip(text), "\n", <<" ">>),
                                           "~", <<" ", "~", " ">>)))

\* period cells: the two forms of the docstring, a tight one, a same-day
\* one, and texts neither pattern matches
PeriodFull ==
    <<"2", "0", "2", "5", "-", "1", "1", "-", "1", "4", " ", "0", "9",
    ":", "0", "0", " ", "~", " ", "2", "0", "2", "5", "-", "1", "1", "-",
    "1", "4", " ", "1", "8", ":", "0", "0">>

PeriodTwoLines ==
    <<"2", "0", "2", "5", "-", "1", "1", "-", "1", "4", " ", "0", "9",
    ":", "0", "0", "\n", "~", " ", "2", "0", "2", "5", "-", "1", "1", "-",
    "1", "5", " ", "1", "8", ":", "0", "0">>

PeriodTight ==
    <<"2", "0", "2", "5", "-", "1", "-", "4", " ", "9", ":", "0", "0",
    "~", "2", "0", "2", "5", "-", "1", "-", "4", " ", "1", "8", ":", "0",
    "0">>

PeriodSameDay ==
    <<"2", "0", "2", "5", "-", "1", "1", "-", "1", "4", " ", "0", "9",
    ":", "0", "0", " ", "-", " ", "1", "8", ":", "0", "0">>

PeriodDateOnly ==
    <<"2", "0", "2", "5", "-", "1", "1", "-", "1", "4">>

PeriodOpen ==
    <<"2", "0", "2", "5", "-", "1", "1", "-", "1", "4", " ", "0", "9",
    ":", "0", "0", " ", "~">>

PeriodJunk ==
    <<"p">>

\* a row of the table: the five columns parse_pdf_to_rows needs
RawRow(n, p, d, c, a) == [name |-> n, period |-> p, dur |-> d, car |-> c, amount |-> a]

\* df_all.apply(lambda col: col.str.strip())
CleanRow(r) ==
    [name |-> Strip(r.name), period |-> Strip(r.period), dur |-> Strip(r.dur),
     car |-> Strip(r.car), amount |-> Strip(r.amount)]

\* mask_valid
RowValid(r) ==
    /\ Strip(r.name) # <<>>
    /\ Strip(r.period) # <<>>
    /\ ~ Contains(r.name, TOTAL_WORD)
    /\ ~ Contains(r.name, SUBTOTAL_WORD)

\* the columns made of a valid row
TripWith(r, per) ==
    [name       |-> extract_name(r.name),
     start_date |-> per.start_date,
     start_time |-> per.start_time,
     end_date   |-> per.end_date,
     end_time   |-> per.end_time,
     minutes    |-> parse_minutes(r.dur),
     car_used   |-> r.car = USED,
     amount_pdf |-> to_int_safe(r.amount)]

TripOf(r) == TripWith(r, parse_period(r.period))

---------------------------------------------------------------------------
(* Specification SpecNormalize: one table row through parse_pdf_to_rows    *)

NameCells ==
    { <<>>, <<" ">>, <<"a">>, <<" ", "a">>, <<"a", "\n", "(", "b", ")">>,
      <<"a", "(", "b">>, <<"(", "a", ")">>, TOTAL_WORD, <<"a">> \o SUBTOTAL_WORD }

PeriodCells ==
    { <<>>, PeriodFull, PeriodTwoLines, PeriodTight, PeriodSameDay, PeriodDateOnly,
      PeriodOpen, PeriodJunk }

CarCells == { <<>>, USED, <<"N">> \o USED, USED \o <<" ">> }

DurChars == {"1", "2", "D", "H", "G", "M", " "}

\* the examples of the docstring of _parse_minutes
DurExamples ==
    { <<"1", "D", " ", "2", "H", "G", " ", "3", "0", "M">>,
      <<"7", "H", "G", "2", "1", "M">>, <<"5", "9", "M">>, <<"4", "H", "G">>,
      <<"1", "D">> }

DurCells == SeqsUpTo(DurChars, MaxCell) \cup DurExamples

AmountChars == {"0", "1", "-", ".", ",", "W"}

\* the examples of the docstring of _to_int_safe, and signed amounts
AmountExamples ==
    { <<"1", "0", ",", "0", "0", "0">>, <<"0">>, <<>>, <<"0", "W">>,
      <<"-", "5", ",", "0", "0", "0">>, <<"+", "5", "0", "0">>,
      <<"1", "0", ",", "0", "0", "0", "W">> }

AmountCells == SeqsUpTo(AmountChars, MaxCell) \cup AmountExamples

RawRows ==
    {RawRow(n, p, <<"4", "H", "G">>, c, <<"1", "0", ",", "0", "0", "0">>) :
        n \in NameCells, p \in PeriodCells, c \in CarCells}
    \cup {RawRow(<<"a">>, PeriodFull, d, USED, <<"1", "0", ",", "0", "0", "0">>) :
            d \in DurCells}
    \cup {RawRow(<<"a">>, PeriodFull, <<"4", "H", "G">>, <<>>, a) : a \in AmountCells}

InitNormalize ==
    /\ pc = "table_row"
    /\ raw_row \in RawRows
    /\ trip = <<>>
    /\ RowIdle
    /\ RulesIdle
    /\ ParseIdle
    /\ UiIdle
    /\ SummaryIdle
    /\ FillIdle

\* the cells are stripped, then rows without a name or a period and the
\* total / subtotal rows are dropped
FilterRow ==
    /\ pc = "table_row"
    /\ raw_row' = CleanRow(raw_row)
    /\ pc' = IF RowValid(CleanRow(raw_row)) THEN "valid" ELSE "dropped"
    /\ UNCHANGED <<parseVars, uiVars, trip, rowVars, rulesVars, pdf_summary, summary, fillVars>>

NormalizeRow ==
    /\ pc = "valid"
    /\ trip' = TripOf(raw_row)
    /\ pc' = "normalized"
    /\ UNCHANGED <<parseVars, uiVars, raw_row, rowVars, rulesVars, pdf_summary, summary, fillVars>>

NextNormalize == FilterRow \/ NormalizeRow

SpecNormalize == InitNormalize /\ [][NextNormalize]_vars

\* C10: every record produced has a duration >= 0 and a reported amount >= 0,
\* whatever the text of the cells
NormalizedNonNegative ==
    pc = "normalized" => trip.minutes >= 0 /\ trip.amount_pdf >= 0

\* the duration alone is never negative
DurationNonNegative == pc = "normalized" => trip.minutes >= 0

\* a record with a negative reported amount
NegativeAmountReached == pc = "normalized" /\ trip.amount_pdf < 0

\* the docstring examples come out as documented
ParserExamples ==
    /\ parse_minutes(<<"1", "D", " ", "2", "H", "G", " ", "3", "0", "M">>) = 1590
    /\ parse_minutes(<<"7", "H", "G", "2", "1", "M">>) = 441
    /\ parse_minutes(<<"5", "9", "M">>) = 59
    /\ parse_minutes(<<"4", "H", "G">>) = 240
    /\ parse_minutes(<<"1", "D">>) = 1440
    /\ to_int_safe(<<"1", "0", ",", "0", "0", "0">>) = 10000
    /\ to_int_safe(<<"0", "W">>) = 0
    /\ to_int_safe(<<"-", "5", ",", "0", "0", "0">>) = 0 - 5000
    /\ extract_name(<<"a", "\n", "(", "b", ")">>) = <<"a">>
    /\ extract_name(<<"(", "a", ")">>) = <<>>

---------------------------------------------------------------------------
(* The order and the numbering of the rows the fresh writer fills          *)

\* rows 5..last_data_row carry the written names in ascending order, one row
\* each, with none left out
WrittenInNameOrder ==
    /\ last_data_row - 4 = Cardinality(WrittenNames(summary))
    /\ \A r \in 5..last_data_row :
          ws[r].name.t = "text" /\ ws[r].name.s \in WrittenNames(summary)
    /\ \A r \in 5..(last_data_row - 1) : TextLess(ws[r].name.s, ws[r + 1].name.s)

\* C13: for every roster the persons are written in ascending name order
\* into consecutive rows from row 5, and column A holds exactly 1, 2, ..., k
\* in row order, k being the number of rows written.
SequenceNumbersForAll ==
    (pc = "filled" /\ n_people >= 1) =>
        /\ WrittenInNameOrder
        /\ \A r \in 5..last_data_row : ws[r].no = Num(r - 4)

\* what the writer does: the number of a row is the person's position in the
\* sorted roster, blank-named persons included, so a blank name (which sorts
\* first) makes the numbers start at 2
SequenceNumbersByPosition ==
    (pc = "filled" /\ n_people >= 1) =>
        /\ WrittenInNameOrder
        /\ \A r \in 5..last_data_row :
              ws[r].no = Num(r - 4 + Cardinality({n \in DOMAIN summary : Strip(n) = <<>>}))

\* a roster with a blank name whose first written row is numbered 2
SequenceGapReached ==
    /\ pc = "filled"
    /\ last_data_row >= 5
    /\ ws[5].no = Num(2)

---------------------------------------------------------------------------
(* The calculator's totals as a function of the records, whatever their    *)
(* order                                                                   *)

MaxPerm == 3    \* every permutation is tried for lists of up to MaxPerm records

Min(a, b) == IF a <= b THEN a ELSE b

\* the start dates of the records of name n
DatesOf(rows, n) == {rows[i].start_date : i \in {j \in 1..Len(rows) : rows[j].name = n}}

\* the sum of the base amounts of name n on date d
DayBase(rows, n, d) == SumAt(RowBaseOf(rows), DayGroupIndex(rows, <<n, d>>))

\* the sum over the dates D of min(20000, that date's base amounts)
RECURSIVE DaySums(_, _, _)
DaySums(rows, n, D) ==
    IF D = {} THEN 0
    ELSE LET d == CHOOSE x \in D : TRUE
         IN  Min(20000, DayBase(rows, n, d)) + DaySums(rows, n, D \ {d})

\* min(280000, sum over the dates of n of min(20000, that date's base amounts))
CappedTotal(rows, n) == Min(280000, DaySums(rows, n, DatesOf(rows, n)))

Reverse(s) == [i \in 1..Len(s) |-> s[Len(s) + 1 - i]]

Rotate(s) == IF s = <<>> THEN s ELSE Tail(s) \o <<s[1]>>

\* the orders a list is tried in: all of them for a short list, the reversed
\* and the rotated one for a long list
Reorderings(s) ==
    IF Len(s) <= MaxPerm
    THEN {[i \in 1..Len(s) |-> s[p[i]]] :
            p \in {q \in [1..Len(s) -> 1..Len(s)] :
                     \A i, j \in 1..Len(s) : q[i] = q[j] => i = j}}
    ELSE {Reverse(s), Rotate(s)}


\* C15: the total of every employee is min(280000, sum over the employee's
\* start dates of min(20000, sum of that date's base amounts)), and the
\* calculator returns the same totals for the records in any other order.
OrderIndependentTotals ==
    pc = "done" =>
        /\ \A n \in RowNames(df_rows) : person_totals[n] = CappedTotal(df_rows, n)
        /\ \A p \in Reorderings(df_rows) :
              compute_allowance_by_person(p) = person_totals

\* two trips of one person on one day, 10000 then 20000: the rows' shares
\* depend on the order (10000 and 10000 here), the total of 20000 does not
OrderIndependentWitness ==
    /\ pc = "done"
    /\ Len(df_rows) = 2
    /\ df_rows[1].name = df_rows[2].name
    /\ df_rows[1].start_date = df_rows[2].start_date
    /\ row_base = <<10000, 20000>>
    /\ row_daily_limited = <<10000, 10000>>
    /\ person_totals[df_rows[1].name] = 20000
    /\ compute_allowance_by_person(Reverse(df_rows)) = person_totals

\* the period cells come out as documented
PeriodExamples ==
    /\ parse_period(PeriodFull) =
          [start_date |-> SubSeq(PeriodFull, 1, 10), start_time |-> <<"0", "9", ":", "0", "0">>,
           end_date |-> SubSeq(PeriodFull, 1, 10), end_time |-> <<"1", "8", ":", "0", "0">>]
    /\ parse_period(PeriodTwoLines).start_date = SubSeq(PeriodFull, 1, 10)
    /\ parse_period(PeriodTwoLines).end_date = <<"2", "0", "2", "5", "-", "1", "1", "-", "1", "5">>
    /\ parse_period(PeriodTight) =
          [start_date |-> <<"2", "0", "2", "5", "-", "1", "-", "4">>,
           start_time |-> <<"9", ":", "0", "0">>,
           end_date |-> <<"2", "0", "2", "5", "-", "1", "-", "4">>,
           end_time |-> <<"1", "8", ":", "0", "0">>]
    /\ parse_period(PeriodSameDay) =
          [start_date |-> SubSeq(PeriodFull, 1, 10), start_time |-> <<"0", "9", ":", "0", "0">>,
           end_date |-> SubSeq(PeriodFull, 1, 10), end_time |-> <<"1", "8", ":", "0", "0">>]
    /\ parse_period(PeriodDateOnly) = NoPeriod
    /\ parse_period(PeriodOpen) = NoPeriod
    /\ parse_period(PeriodJunk) = NoPeriod

---------------------------------------------------------------------------
(* core/pdf_parser.py : parse_pdf_to_rows on a whole document              *)
(* A document is the sequence of its tables, in page order; a table is its *)
(* header (the column names) and its rows, each a sequence of as many      *)
(* cells.  The column names are written like the cells:                    *)
(*   Q B = 순번 (number), X Y = 성명 (name), C J P G = 출장기간 (period),  *)
(*   Z C J H G = 총출장시간 (duration), R F S V L = 공무용차량 (vehicle),  *)
(*   T K = 합계 (total), c g = 청구 (claim).                               *)

MaxDocRows == 2     \* tables of up to MaxDocRows rows

NO_WORD      == <<"Q", "B">>
NAME_WORD    == <<"X", "Y">>
PERIOD_WORD  == <<"C", "J", "P", "G">>
DUR_WORD     == <<"Z", "C", "J", "H", "G">>
CAR_WORD     == <<"R", "F", "S", "V", "L">>
CLAIM_WORD   == <<"c", "g">>

Table(header, rows) == [header |-> header, rows |-> rows]

\* the tables taken for trip data: those whose first header cell is 순번
KeptTables(d) ==
    SelectSeq(d, LAMBDA t : t.header # <<>> /\ Strip(t.header[1]) = NO_WORD)

\* the column names of the concatenated frame: those of every table, in the
\* order first seen, stripped
RECURSIVE ColumnsOf(_, _)
ColumnsOf(names, seen) ==
    IF names = <<>> THEN seen
    ELSE LET c == Strip(names[1])
         IN  ColumnsOf(Tail(names),
                       IF \E j \in 1..Len(seen) : seen[j] = c THEN seen
                       ELSE Append(seen, c))

RECURSIVE Flatten(_)
Flatten(ss) == IF ss = <<>> THEN <<>> ELSE ss[1] \o Flatten(Tail(ss))

FrameColumns(tables) ==
    ColumnsOf(Flatten([k \in 1..Len(tables) |-> tables[k].header]), <<>>)

\* _find_col with one keyword: the first column whose name contains it;
\* <<>> stands for None
find_col(columns, keyword) ==
    LET hits == SelectSeq(columns, LAMBDA c : Contains(c, keyword))
    IN  IF hits = <<>> THEN <<>> ELSE hits[1]

\* the cell of a table's row in the column named col; "" where the table
\* has no such column (fillna(""))
CellAt(t, r, col) ==
    LET js == {j \in 1..Len(t.header) : Strip(t.header[j]) = col}
    IN  IF js = {} THEN <<>> ELSE r[CHOOSE j \in js : TRUE]

\* the rows of the concatenated frame, reduced to the five resolved columns
FrameRows(tables, cn, cp, cd, cc, ca) ==
    Flatten([k \in 1..Len(tables) |->
        [i \in 1..Len(tables[k].rows) |->
            LET t == tables[k]
                r == t.rows[i]
            IN  CleanRow(RawRow(CellAt(t, r, cn), CellAt(t, r, cp), CellAt(t, r, cd),
                                CellAt(t, r, cc), CellAt(t, r, ca)))]])

\* the amount column: the first keyword with a hit decides
AmountColumn(total, claim) == IF total # <<>> THEN total ELSE claim

ColumnsAmong(cols) ==
    [name   |-> find_col(cols, NAME_WORD),
     period |-> find_col(cols, PERIOD_WORD),
     dur    |-> find_col(cols, DUR_WORD),
     car    |-> find_col(cols, CAR_WORD),
     amount |-> AmountColumn(find_col(cols, TOTAL_WORD), find_col(cols, CLAIM_WORD))]

ResolvedColumns(tables) == ColumnsAmong(FrameColumns(tables))

AllResolved(c) ==
    c.name # <<>> /\ c.period # <<>> /\ c.dur # <<>> /\ c.car # <<>> /\ c.amount # <<>>

ParseFailure(e) == [ok |-> FALSE, error |-> e, trips |-> <<>>]

\* parse_pdf_to_rows: the records, or the error raised.  With no valid row
\* left, the four period columns cannot be unpacked from zip() of nothing
\* and a ValueError is raised (pdf_parser.py:243-248).
\* pdf_parser.py:241-266 on the rows of df_use
ParseValid(valid) ==
    IF valid = <<>> THEN ParseFailure("unpack")
    ELSE [ok |-> TRUE, error |-> "", trips |-> [i \in 1..Len(valid) |-> TripOf(valid[i])]]

\* pdf_parser.py:220-238 on the resolved columns c
ParseColumns(tables, c) ==
    IF ~AllResolved(c) THEN ParseFailure("missing_column")
    ELSE ParseValid(SelectSeq(FrameRows(tables, c.name, c.period, c.dur, c.car, c.amount),
                              RowValid))

\* pdf_parser.py:203-218 on the tables kept
ParseTables(tables) ==
    IF tables = <<>> THEN ParseFailure("no_table")
    ELSE ParseColumns(tables, ResolvedColumns(tables))

parse_pdf_to_rows(d) == ParseTables(KeptTables(d))

---------------------------------------------------------------------------
(* Specification SpecParse: parse_pdf_to_rows, stage by stage              *)

HeaderFull    == <<NO_WORD, NAME_WORD, PERIOD_WORD, DUR_WORD, CAR_WORD, TOTAL_WORD>>
HeaderSpaced  == <<<<" ">> \o NO_WORD, NAME_WORD, PERIOD_WORD, DUR_WORD, CAR_WORD, TOTAL_WORD>>
HeaderClaim   == <<NO_WORD, NAME_WORD, PERIOD_WORD, DUR_WORD, CAR_WORD, CLAIM_WORD>>
HeaderNoAmount == <<NO_WORD, NAME_WORD, PERIOD_WORD, DUR_WORD, CAR_WORD>>
HeaderNoPeriod == <<NO_WORD, NAME_WORD, DUR_WORD, CAR_WORD, TOTAL_WORD>>
HeaderOther   == <<NAME_WORD, NO_WORD, PERIOD_WORD, DUR_WORD, CAR_WORD, TOTAL_WORD>>

Headers ==
    {HeaderFull, HeaderSpaced, HeaderClaim, HeaderNoAmount, HeaderNoPeriod, HeaderOther}

\* rows as the document has them: two well-formed trips, a trip whose
\* period, duration, vehicle and amount cells are all malformed, a trip with
\* an empty period cell, and the table's total row
RowGoodA  == RawRow(<<"a", "\n", "(", "b", ")">>, PeriodFull, <<"4", "H", "G">>, USED,
                    <<"1", "0", ",", "0", "0", "0">>)
RowGoodB  == RawRow(<<"b">>, PeriodSameDay, <<"1", "H", "G">>, <<>>,
                    <<"1", "0", ",", "0", "0", "0">>)
RowBadCells == RawRow(<<"a">>, PeriodJunk, <<"H", "G">>, <<"N">> \o USED, <<"1", "W">>)
RowNoPeriod == RawRow(<<"a">>, <<" ">>, <<"4", "H", "G">>, USED, <<"0">>)
RowTotal  == RawRow(TOTAL_WORD, PeriodJunk, <<>>, <<>>, <<"2", "0", ",", "0", "0", "0">>)

DocRowKinds == {RowGoodA, RowGoodB, RowBadCells, RowNoPeriod, RowTotal}

\* the cell of a row under a column name
CellFor(r, col) ==
    IF Contains(col, NAME_WORD) THEN r.name
    ELSE IF Contains(col, PERIOD_WORD) THEN r.period
    ELSE IF Contains(col, DUR_WORD) THEN r.dur
    ELSE IF Contains(col, CAR_WORD) THEN r.car
    ELSE IF Contains(col, TOTAL_WORD) \/ Contains(col, CLAIM_WORD) THEN r.amount
    ELSE <<"1">>

TableOf(header, rs) ==
    Table(header, [i \in 1..Len(rs) |-> [j \in 1..Len(header) |-> CellFor(rs[i], header[j])]])

\* documents: no table at all; one table under each header with up to
\* MaxDocRows rows; a foreign table before the trip table; the trip table
\* continued on a second page
Docs ==
    {<<>>}
    \cup {<<TableOf(h, rs)>> : h \in Headers, rs \in SeqsUpTo(DocRowKinds, MaxDocRows)}
    \cup {<<TableOf(HeaderOther, <<RowGoodA>>), TableOf(HeaderFull, rs)>> :
            rs \in SeqsUpTo(DocRowKinds, 1)}
    \cup {<<TableOf(HeaderFull, <<r1>>), TableOf(HeaderFull, <<r2>>)>> :
            r1 \in DocRowKinds, r2 \in DocRowKinds}

InitParse ==
    /\ pc = "pdf"
    /\ doc \in Docs
    /\ df_all = <<>> /\ df_final = <<>> /\ parse_error = ""
    /\ RowIdle
    /\ NormIdle
    /\ RulesIdle
    /\ SummaryIdle
    /\ FillIdle
    /\ UiIdle

parseRest == <<rowVars, rulesVars, pdf_summary, summary, fillVars, normVars, uiVars>>

\* pdf_parser.py:186-204: the tables are collected; none is an error
ExtractTables ==
    /\ pc = "pdf"
    /\ IF KeptTables(doc) = <<>>
       THEN pc' = "parse_failed" /\ parse_error' = "no_table"
       ELSE pc' = "tables" /\ UNCHANGED parse_error
    /\ UNCHANGED <<doc, df_all, df_final, parseRest>>

\* pdf_parser.py:206-223: the frame is built and cleaned, the five columns
\* are looked up; a column not found is an error
ResolveColumns ==
    /\ pc = "tables"
    /\ LET c == ResolvedColumns(KeptTables(doc))
       IN  IF AllResolved(c)
           THEN /\ df_all' = FrameRows(KeptTables(doc), c.name, c.period, c.dur,
                                       c.car, c.amount)
                /\ pc' = "columns"
                /\ UNCHANGED parse_error
           ELSE /\ pc' = "parse_failed"
                /\ parse_error' = "missing_column"
                /\ UNCHANGED df_all
    /\ UNCHANGED <<doc, df_final, parseRest>>

\* pdf_parser.py:225-238: the rows that are no trips are dropped
FilterRows ==
    /\ pc = "columns"
    /\ df_all' = SelectSeq(df_all, RowValid)
    /\ pc' = "valid_rows"
    /\ UNCHANGED <<doc, df_final, parse_error, parseRest>>

\* pdf_parser.py:240-266: the columns of the records are made
NormalizeRows ==
    /\ pc = "valid_rows"
    /\ IF df_all = <<>>
       THEN pc' = "parse_failed" /\ parse_error' = "unpack" /\ UNCHANGED df_final
       ELSE /\ df_final' = [i \in 1..Len(df_all) |-> TripOf(df_all[i])]
            /\ pc' = "parsed"
            /\ UNCHANGED parse_error
    /\ UNCHANGED <<doc, df_all, parseRest>>

NextParse == ExtractTables \/ ResolveColumns \/ FilterRows \/ NormalizeRows

SpecParse == InitParse /\ [][NextParse]_vars

\* the stages end as the function does
StagedParseAgrees ==
    /\ pc = "parsed" =>
          parse_pdf_to_rows(doc) = [ok |-> TRUE, error |-> "", trips |-> df_final]
    /\ pc = "parse_failed" => parse_pdf_to_rows(doc) = ParseFailure(parse_error)

\* the trip table is found and its five columns are resolved
TableAndColumnsFound ==
    KeptTables(doc) # <<>> /\ AllResolved(ResolvedColumns(KeptTables(doc)))

\* the record of a row with the defaults where a cell is malformed
DegradedAsSpecified(r, t) ==
    /\ t.minutes = parse_minutes(r.dur) /\ t.amount_pdf = to_int_safe(r.amount)
    /\ r = CleanRow(RowBadCells) =>
          /\ t.minutes = 0 /\ t.amount_pdf = 0 /\ ~t.car_used
          /\ t.start_date = <<>> /\ t.start_time = <<>>
          /\ t.end_date = <<>> /\ t.end_time = <<>>

\* C12: for every document whose trip table is found with its columns
\* resolved, whatever the number of rows and the texts of their cells, the
\* run does not abort: every malformed cell becomes its default and the
\* records of the remaining rows are returned.
MalformedCellsNeverAbort ==
    (pc \in {"parsed", "parse_failed"} /\ TableAndColumnsFound) =>
        /\ pc = "parsed"
        /\ Len(df_final) = Len(df_all)
        /\ \A i \in 1..Len(df_all) : DegradedAsSpecified(df_all[i], df_final[i])

\* what the parser does: the same whenever a row is left after the filter;
\* with no row left it raises
MalformedCellsDegrade ==
    (pc \in {"parsed", "parse_failed"} /\ TableAndColumnsFound) =>
        /\ df_all # <<>> =>
              /\ pc = "parsed"
              /\ Len(df_final) = Len(df_all)
              /\ \A i \in 1..Len(df_all) : DegradedAsSpecified(df_all[i], df_final[i])
        /\ df_all = <<>> => pc = "parse_failed" /\ parse_error = "unpack"

\* a table whose only row has an empty period cell: the run is aborted
AbortOnNoRowReached ==
    /\ pc = "parse_failed"
    /\ parse_error = "unpack"
    /\ doc = <<TableOf(HeaderFull, <<RowNoPeriod>>)>>

\* a malformed row parsed next to a well-formed one
DegradedRowReached ==
    /\ pc = "parsed"
    /\ Len(df_final) = 2
    /\ df_all[1] = CleanRow(RowBadCells)
    /\ df_final[1].minutes = 0 /\ df_final[1].start_date = <<>>
    /\ df_final[2].minutes = 240

---------------------------------------------------------------------------
(* core/pdf_analyzer.py : analyze_pdf_and_template on a document           *)

\* a number for a start date text, one for each text of the form the parser
\* returns (four digits, 1-2 digits, 1-2 digits); 0 for the empty text
DateKey(d) ==
    IF d = <<>> THEN 0
    ELSE LET y    == Before(d, "-")
             rest == SubSeq(d, Len(y) + 2, Len(d))
             mo   == Before(rest, "-")
             dy   == SubSeq(rest, Len(mo) + 2, Len(rest))
         IN  DigitsValue(y) * 10000 + DigitsValue(mo) * 100 + DigitsValue(dy)
             + 100000000 * (2 * (Len(mo) - 1) + (Len(dy) - 1))

\* the records as the calculator and the summarizer take them
RecordsOf(trips) ==
    [i \in 1..Len(trips) |->
        [name |-> trips[i].name, start_date |-> DateKey(trips[i].start_date),
         minutes |-> trips[i].minutes, car_used |-> trips[i].car_used,
         amount_pdf |-> trips[i].amount_pdf]]

AnalyzeFailure(e) == [ok |-> FALSE, error |-> e, summary |-> <<>>, result |-> <<>>]

\* an error of the parser is not caught: nothing is returned
\* the summary and the workbook filled from it
Reported(merged, tmpl, br) ==
    [ok |-> TRUE, error |-> "", summary |-> merged,
     result |-> fill_template_with_summary(tmpl, merged, br).ws]

\* the steps after the parser, on its outcome p
Analyzed(p, tmpl, br) ==
    IF ~p.ok THEN AnalyzeFailure(p.error)
    ELSE Reported(MergedOf(RecordsOf(p.trips)), tmpl, br)

analyze_pdf_and_template(d, tmpl, br) == Analyzed(parse_pdf_to_rows(d), tmpl, br)

---------------------------------------------------------------------------
(* app.py : render_page, one script run per interaction                    *)
(* The session state is [summary_df, result_bytes, last_error,             *)
(* last_pdf_fingerprint]; <<>> and "" stand for None.                      *)

Fingerprint(up) == <<up.name, up.size>>

\* app.py:45-47
CurrentFingerprint(up) == IF up = NoUpload THEN <<>> ELSE Fingerprint(up)

\* the test of app.py:49-52 never succeeding
NewPdfUploaded_never(fp, last) == FALSE

\* app.py:49-52
NewPdfUploaded(fp, last) == fp # <<>> /\ fp # last

\* the three assignments of every error branch
Failed(sess, e) ==
    [sess EXCEPT !.summary_df = <<>>, !.result_bytes = <<>>, !.last_error = e]

\* an error branch that leaves the stored results alone
OnProcessError_keep(sess) == [sess EXCEPT !.last_error = "process_error"]

\* app.py:92-96
OnProcessError(sess) == Failed(sess, "process_error")

\* app.py:53-56
AfterUploadCheck(sess, up) ==
    IF NewPdfUploaded(CurrentFingerprint(up), sess.last_pdf_fingerprint)
    THEN [sess EXCEPT !.summary_df = <<>>, !.result_bytes = <<>>, !.last_error = ""]
    ELSE sess

\* app.py:84-101: what the session keeps of the outcome of the analysis
StoreOutcome(sess, up, out) ==
    IF ~out.ok THEN OnProcessError(sess)
    ELSE [summary_df |-> out.summary, result_bytes |-> out.result,
          last_error |-> "", last_pdf_fingerprint |-> CurrentFingerprint(up)]

\* app.py:60-101, the run button pressed
AfterRun(sess, up, tmpl, br) ==
    IF up = NoUpload THEN Failed(sess, "missing_upload")
    ELSE IF tmpl.state = "missing" THEN Failed(sess, "template_missing")
    ELSE IF tmpl.state = "unreadable" THEN Failed(sess, "file_read_error")
    ELSE StoreOutcome(sess, up, analyze_pdf_and_template(up.doc, tmpl.sheet, br))

\* app.py:103-145: the results, the hint to upload, or neither
Display(sess, up) ==
    IF DOMAIN sess.summary_df = {} \/ sess.result_bytes = <<>>
    THEN IF sess.last_error = "missing_upload" THEN "nothing"
         ELSE IF up = NoUpload /\ sess.last_error = "" THEN "info"
         ELSE "nothing"
    ELSE "results"

Session ==
    [summary_df |-> summary_df, result_bytes |-> result_bytes,
     last_error |-> last_error, last_pdf_fingerprint |-> last_pdf_fingerprint]

\* the session state after one run of the script: app.py:45-56, then 60-101
AfterScript(sess, up, rb, tmpl, br) ==
    IF rb THEN AfterRun(AfterUploadCheck(sess, up), up, tmpl, br)
    ELSE AfterUploadCheck(sess, up)

\* one run of the script with the widgets' values up and rb
RenderPage(up, rb, br) ==
    \E s2 \in {AfterScript(Session, up, rb, template_file, br)} :
        /\ uploaded_pdf' = up
        /\ run_button' = rb
        /\ summary_df' = s2.summary_df
        /\ result_bytes' = s2.result_bytes
        /\ last_error' = s2.last_error
        /\ last_pdf_fingerprint' = s2.last_pdf_fingerprint
        /\ shown' = Display(s2, up)
        /\ results_of' = IF rb /\ DOMAIN s2.summary_df # {} THEN up ELSE results_of
        /\ UNCHANGED <<pc, template_file, rowVars, rulesVars, pdf_summary, summary,
                       fillVars, normVars, parseVars>>

---------------------------------------------------------------------------
(* Specification SpecUI: the page under uploads, removals, presses of the  *)
(* run button and other interactions                                       *)

DocGood      == <<TableOf(HeaderFull, <<RowGoodA, RowGoodB>>)>>
DocOther     == <<TableOf(HeaderFull, <<RowGoodB, RowBadCells>>)>>
DocNoTable   == <<TableOf(HeaderOther, <<RowGoodA>>)>>
DocNoColumn  == <<TableOf(HeaderNoAmount, <<RowGoodA>>)>>
DocNoRow     == <<TableOf(HeaderFull, <<RowNoPeriod>>)>>

Upload(n, sz, d) == [name |-> n, size |-> sz, doc |-> d]

\* the files a user may upload; some share name and size and differ in content
Files ==
    { Upload("a.pdf", 1, DocGood), Upload("a.pdf", 1, DocNoTable),
      Upload("a.pdf", 1, <<>>), Upload("a.pdf", 2, DocNoColumn),
      Upload("b.pdf", 1, DocOther), Upload("b.pdf", 1, DocNoColumn),
      Upload("b.pdf", 2, DocNoRow), Upload("b.pdf", 2, DocGood) }

TemplateFiles ==
    { NoTemplate, [state |-> "unreadable", sheet |-> <<>>],
      [state |-> "ok", sheet |-> TemplateSheet(None)] }

\* app.py:10-18, before the first script run
InitUI ==
    /\ pc = "page"
    /\ uploaded_pdf = NoUpload
    /\ run_button = FALSE
    /\ template_file \in TemplateFiles
    /\ summary_df = <<>> /\ result_bytes = <<>> /\ last_error = ""
    /\ last_pdf_fingerprint = <<>>
    /\ shown = "info"
    /\ results_of = NoUpload
    /\ RowIdle
    /\ NormIdle
    /\ RulesIdle
    /\ SummaryIdle
    /\ FillIdle
    /\ ParseIdle

\* a file is put into the uploader (also in place of another one)
UploadPdf ==
    /\ pc = "page"
    /\ \E f \in Files : f # uploaded_pdf /\ RenderPage(f, FALSE, "main")

\* the uploaded file is taken away
RemovePdf ==
    /\ pc = "page"
    /\ uploaded_pdf # NoUpload
    /\ RenderPage(NoUpload, FALSE, "main")

\* the run button is pressed
PressRun ==
    /\ pc = "page"
    /\ \E br \in Branches : RenderPage(uploaded_pdf, TRUE, br)

\* any other interaction reruns the script
Rerun ==
    /\ pc = "page"
    /\ RenderPage(uploaded_pdf, FALSE, "main")

NextUI == UploadPdf \/ RemovePdf \/ PressRun \/ Rerun

SpecUI == InitUI /\ [][NextUI]_vars

\* the document has no trip table, or a required column is not found
StructuralError(d) ==
    KeptTables(d) = <<>> \/ ~AllResolved(ResolvedColumns(KeptTables(d)))

\* C11: a structural error ends the run without any partial result: the
\* parser fails before it normalizes a row, analyze_pdf_and_template returns
\* neither summary nor bytes, and after the run the session holds no summary
\* and no result bytes and has the error recorded.
StructuralErrorTerminal ==
    (run_button /\ uploaded_pdf # NoUpload /\ StructuralError(uploaded_pdf.doc)) =>
        /\ parse_pdf_to_rows(uploaded_pdf.doc).trips = <<>>
        /\ parse_pdf_to_rows(uploaded_pdf.doc).error \in {"no_table", "missing_column"}
        /\ \A br \in Branches :
              analyze_pdf_and_template(uploaded_pdf.doc, TemplateSheet(None), br)
                  = AnalyzeFailure(parse_pdf_to_rows(uploaded_pdf.doc).error)
        /\ DOMAIN summary_df = {} /\ result_bytes = <<>>
        /\ last_error # ""
        /\ template_file.state = "ok" => last_error = "process_error"
        /\ shown = "nothing"

\* a document without the trip table run right after a successful run of a
\* file of the same name and size: the earlier results are gone
StructuralErrorWitness ==
    /\ run_button
    /\ uploaded_pdf = Upload("a.pdf", 1, DocNoTable)
    /\ results_of = Upload("a.pdf", 1, DocGood)
    /\ last_pdf_fingerprint = <<"a.pdf", 1>>
    /\ last_error = "process_error"
    /\ DOMAIN summary_df = {}

ResultsStored == DOMAIN summary_df # {} /\ result_bytes # <<>>

\* C14: results are displayed only when summary and result bytes are both
\* present; a PDF whose fingerprint differs from that of the last successful
\* run hides them until a run succeeds; so whenever results are displayed
\* while a PDF is uploaded, its fingerprint is that of the PDF the results
\* were made from.
ResultsMatchUpload ==
    /\ shown = "results" <=> ResultsStored
    /\ DOMAIN summary_df = {} <=> result_bytes = <<>>
    /\ (uploaded_pdf # NoUpload /\ Fingerprint(uploaded_pdf) # last_pdf_fingerprint) =>
          shown # "results"
    /\ (shown = "results" /\ uploaded_pdf # NoUpload) =>
          /\ Fingerprint(uploaded_pdf) = Fingerprint(results_of)
          /\ Fingerprint(results_of) = last_pdf_fingerprint

\* after a successful run of a.pdf, b.pdf is uploaded: the results of a.pdf
\* are hidden and dropped
ResultsHiddenWitness ==
    /\ uploaded_pdf = Upload("b.pdf", 1, DocOther)
    /\ ~run_button
    /\ results_of = Upload("a.pdf", 1, DocGood)
    /\ last_pdf_fingerprint = <<"a.pdf", 1>>
    /\ shown = "nothing"
    /\ DOMAIN summary_df = {}

\* a file of the same name and size but of other content leaves the results
\* of the earlier file on display
SameFingerprintShown ==
    /\ shown = "results"
    /\ uploaded_pdf = Upload("a.pdf", 1, DocNoTable)
    /\ results_of = Upload("a.pdf", 1, DocGood)

====
